---- MODULE Spec2Model ----
(***************************************************************************)
(* ModifierPullAll (src/src/mongo/db/ops/modifier_pull_all.cpp): the       *)
(* $pullAll update modifier.  init() parses the field name and keeps the   *)
(* values to pull; prepare() resolves the path in a document and captures  *)
(* the children to remove; apply() removes them; log() appends the         *)
(* $set/$unset entry describing the result.                                *)
(*                                                                         *)
(* A document is an arena of nodes (a sequence; a node's id is its index), *)
(* as mutablebson keeps one: an Element is (document, id), and id 0 is the *)
(* invalid Element doc.end().  A dotted field name is kept as the sequence *)
(* of its parts (FieldRef).                                                *)
(***************************************************************************)
EXTENDS Integers, Sequences, FiniteSets, TLC

\* Longest array put in a document.
MaxArr == 3
\* apply() calls counted per PreparedState.
MaxApplyRuns == 2

\* Element doc.end(): the invalid element.
END == 0
\* Id of the root element of a document.
ROOT == 1

---------------------------------------------------------------------------
\* Typed scalar values of the host document format.

I1 == [type |-> "NumberInt", val |-> 1]
I2 == [type |-> "NumberInt", val |-> 2]
D1 == [type |-> "NumberDouble", val |-> 1]
S1 == [type |-> "String", val |-> 1]

\* Values put in the arrays of the documents.
Scalars == {I1, I2, D1}

SeqsUpTo(S, n) == UNION {[1..k -> S] : k \in 0..n}

\* Decimal field names of array positions.
NumStr == <<"0", "1", "2", "3", "4", "5">>

isNumeric(part) == \E i \in 1..Len(NumStr) : NumStr[i] = part

numericIndex(part) == (CHOOSE i \in 1..Len(NumStr) : NumStr[i] = part) - 1

---------------------------------------------------------------------------
\* Documents.

Leaf(name, sc, parent) ==
    [name |-> name, type |-> sc.type, val |-> sc.val, kids |-> <<>>, parent |-> parent]

Cont(name, type, kids, parent) ==
    [name |-> name, type |-> type, val |-> 0, kids |-> kids, parent |-> parent]

\* The nodes of the members of an array node `parent`, stored from id `first`.
ArrKids(arr, parent) == [i \in 1..Len(arr) |-> Leaf(NumStr[i], arr[i], parent)]

Ids(first, n) == [i \in 1..n |-> first + i - 1]

\* {}
DocEmpty == << Cont("", "Object", <<>>, END) >>

\* {z: 1}
DocOther == << Cont("", "Object", <<2>>, END), Leaf("z", I1, ROOT) >>

\* {a: 2, z: 1}
DocScalar == << Cont("", "Object", <<2, 3>>, END), Leaf("a", I2, ROOT), Leaf("z", I1, ROOT) >>

\* {a: arr, z: 1}
DocArray(arr) ==
    << Cont("", "Object", <<2, 3>>, END),
       Cont("a", "Array", Ids(4, Len(arr)), ROOT),
       Leaf("z", I1, ROOT) >> \o ArrKids(arr, 2)

\* {a: {b: arr}, z: 1}
DocNested(arr) ==
    << Cont("", "Object", <<2, 3>>, END),
       Cont("a", "Object", <<4>>, ROOT),
       Leaf("z", I1, ROOT),
       Cont("b", "Array", Ids(5, Len(arr)), 2) >> \o ArrKids(arr, 4)

\* {a: {b: 1}}
DocNestedScalar ==
    << Cont("", "Object", <<2>>, END), Cont("a", "Object", <<3>>, ROOT), Leaf("b", I1, 2) >>

\* {a: {c: 1}}
DocNestedOther ==
    << Cont("", "Object", <<2>>, END), Cont("a", "Object", <<3>>, ROOT), Leaf("c", I1, 2) >>

\* {a: [arr, ["1"]]}
DocArrArr(arr) ==
    << Cont("", "Object", <<2>>, END),
       Cont("a", "Array", <<3, 4>>, ROOT),
       Cont("0", "Array", Ids(6, Len(arr)), 2),
       Cont("1", "Array", <<5>>, 2),
       Leaf("0", S1, 4) >> \o ArrKids(arr, 3)

\* Target documents: every array up to MaxArr members at the top level, the
\* shorter ones below it, and one array of members of two kinds.
Docs ==
    {DocEmpty, DocOther, DocScalar, DocNestedScalar, DocNestedOther,
     DocArray(<<I1, S1, I1>>)}
    \cup {DocArray(arr) : arr \in SeqsUpTo(Scalars, MaxArr)}
    \cup {DocNested(arr) : arr \in SeqsUpTo(Scalars, MaxArr - 1)}
    \cup {DocArrArr(arr) : arr \in SeqsUpTo(Scalars, MaxArr - 1)}

\* mutablebson::Element accessors.
ok(e) == e # END

getType(d, e) == d[e].type

hasChildren(d, e) == d[e].kids # <<>>

leftChild(d, e) == IF d[e].kids = <<>> THEN END ELSE d[e].kids[1]

\* Position of e among the children of its parent (0 when detached).
posInParent(d, e) ==
    IF d[e].parent = END THEN 0
    ELSE CHOOSE i \in 1..Len(d[d[e].parent].kids) : d[d[e].parent].kids[i] = e

rightSibling(d, e) ==
    IF posInParent(d, e) = 0 \/ posInParent(d, e) = Len(d[d[e].parent].kids)
    THEN END
    ELSE d[d[e].parent].kids[posInParent(d, e) + 1]

\* Element::operator[](name): the first child with that field name.
childByName(d, e, name) ==
    IF \E i \in 1..Len(d[e].kids) : d[d[e].kids[i]].name = name
    THEN d[e].kids[CHOOSE i \in 1..Len(d[e].kids) :
                      /\ d[d[e].kids[i]].name = name
                      /\ \A j \in 1..(i - 1) : d[d[e].kids[j]].name # name]
    ELSE END

\* Element::operator[](n): the n-th child, counted from 0.
childByIndex(d, e, n) == IF n < Len(d[e].kids) THEN d[e].kids[n + 1] ELSE END

\* Element::remove(): detach e from its parent; refused for a parentless element
\* (and an element of another document is no element of d).
remove(d, e) ==
    IF e \notin DOMAIN d \/ d[e].parent = END THEN d
    ELSE LET p == d[e].parent
         IN [d EXCEPT ![p].kids = SelectSeq(d[p].kids, LAMBDA k : k # e),
                      ![e].parent = END]

\* Element::compareWithBSONElement(elem, considerFieldName = false) == 0: the same
\* type and the same value, the field names left out.
compareEqual(d, e, bson) ==
    /\ d[e].type = bson.type
    /\ d[e].val = bson.val

---------------------------------------------------------------------------
\* pathsupport::findLongestPrefix

RECURSIVE walkPrefix(_, _, _, _, _)
\* The loop over the parts: i parts are matched, curr is the element reached.
walkPrefix(d, parts, i, prev, curr) ==
    IF i >= Len(parts)
    THEN [i |-> i, prev |-> prev, curr |-> curr, viable |-> TRUE]
    ELSE LET part   == parts[i + 1]
             t      == getType(d, curr)
             viable == t = "Object" \/ (t = "Array" /\ isNumeric(part))
             next   == IF t = "Object" THEN childByName(d, curr, part)
                       ELSE IF t = "Array" /\ isNumeric(part)
                            THEN childByIndex(d, curr, numericIndex(part))
                            ELSE curr
         IN IF ~ok(next) \/ ~viable
            THEN [i |-> i, prev |-> curr, curr |-> next, viable |-> viable]
            ELSE walkPrefix(d, parts, i + 1, curr, next)

\* The status, and the index and element it stores when it stores them.
findLongestPrefix(parts, d) ==
    IF ~hasChildren(d, ROOT) \/ Len(parts) = 0
    THEN [code |-> "NonExistentPath", written |-> FALSE, idx |-> 0, elem |-> END]
    ELSE LET w == walkPrefix(d, parts, 0, ROOT, ROOT)
         IN IF w.i = 0
            THEN [code |-> "NonExistentPath", written |-> FALSE, idx |-> 0, elem |-> END]
            ELSE IF ~w.viable
            THEN [code |-> "PathNotViable", written |-> TRUE, idx |-> w.i - 1, elem |-> w.prev]
            ELSE IF ok(w.curr)
            THEN [code |-> "OK", written |-> TRUE, idx |-> w.i - 1, elem |-> w.curr]
            ELSE [code |-> "OK", written |-> TRUE, idx |-> w.i - 1, elem |-> w.prev]

\* fieldchecker::isUpdatable: no empty part, at most one "$" part, and none as
\* the first part (index 0 stands for "no positional part").
isUpdatable(parts) ==
    IF \/ Len(parts) = 0
       \/ \E i \in 1..Len(parts) : parts[i] = ""
       \/ parts[1] = "$"
       \/ \E i, j \in 1..Len(parts) : i # j /\ parts[i] = "$" /\ parts[j] = "$"
    THEN "BadValue" ELSE "OK"

\* fieldchecker::isPositional: the index of the first "$" part, when there is one.
isPositional(parts) == \E i \in 1..Len(parts) : parts[i] = "$"

firstPositional(parts) ==
    (CHOOSE i \in 1..Len(parts) :
        parts[i] = "$" /\ \A j \in 1..(i - 1) : parts[j] # "$") - 1

---------------------------------------------------------------------------
\* The modifier.

VARIABLES
    _fieldRef,             \* parts of the field name
    _positionalPathIndex,  \* index of the "$" part; 0 when there is none
    _elementsToFind,       \* the values to pull
    _preparedState,        \* the PreparedState of the last prepare()
    doc,                   \* the document handed to the last prepare()
    execInfo,              \* the caller's ExecInfo
    logRoot,               \* children of the caller's log root
    status,                \* what the last call returned
    lastCall,              \* the last call made
    preDoc,                \* history: doc as it was handed to prepare()
    matchedIn,             \* history: matchedField of the last prepare()
    execIn,                \* history: ExecInfo as it was handed to prepare()
    prepStatus,            \* history: what the last prepare() returned
    prevBound,             \* history: the positional part bound before the last prepare()
    prevCaptured,          \* history: the PreparedState replaced by the last prepare()
                           \*          held captured elements
    applyRuns,             \* history: apply() calls on this PreparedState
    modIn,                 \* history: modExpr as it was handed to init()
    logFail                \* history: the step that failed in the last log()

vars == << _fieldRef, _positionalPathIndex, _elementsToFind, _preparedState, doc,
           execInfo, logRoot, status, lastCall, preDoc, matchedIn, execIn,
           prepStatus, prevBound, prevCaptured, applyRuns, modIn, logFail >>

\* Field names given to init(), as their parts: a, a.b, a.$, and two that are not
\* updatable: $ (placeholder as first part) and a.. (empty part).
FieldNames == { <<"a">>, <<"a", "b">>, <<"a", "$">>, <<"$">>, <<"a", "">> }

\* Array arguments given to the operator.
FindArrays == { <<>>, <<I1>>, <<S1>>, <<I1, S1>>, <<S1, I1>>, <<I2, I1>> }

\* Operator arguments: arrays, and one value that is no array.
ModExprs ==
    {[fieldName |-> f, type |-> "Array", arr |-> a] : f \in FieldNames, a \in FindArrays}
    \cup {[fieldName |-> f, type |-> "NumberInt", arr |-> <<>>] : f \in FieldNames}

\* matchedField arguments of prepare().
MatchedFields == {"", "0", "1"}

\* ExecInfo flags as the caller hands them in.
ExecInfos ==
    {[noOp |-> FALSE, inPlace |-> FALSE, fieldRefSet |-> FALSE],
     [noOp |-> TRUE, inPlace |-> TRUE, fieldRefSet |-> FALSE]}

\* ExecInfo flags in every combination.
AllExecInfos ==
    {[noOp |-> n, inPlace |-> p, fieldRefSet |-> FALSE] : n \in BOOLEAN, p \in BOOLEAN}

\* PreparedState(targetDoc)
PreparedState ==
    [exists |-> TRUE, pathFoundIndex |-> 0, pathFoundElement |-> END,
     pathPositionalPart |-> "", applyCalled |-> FALSE, elementsToRemove |-> <<>>]

\* The null _preparedState of a new modifier.
NoPreparedState == [PreparedState EXCEPT !.exists = FALSE]

\* No modExpr: init() was not called yet.
NoModExpr == [fieldName |-> <<>>, type |-> "EOO", arr |-> <<>>]

\* ModifierPullAll::ModifierPullAll()
Init ==
    /\ _fieldRef = <<>>
    /\ _positionalPathIndex = 0
    /\ _elementsToFind = <<>>
    /\ _preparedState = NoPreparedState
    /\ doc = DocEmpty
    /\ execInfo = [noOp |-> FALSE, inPlace |-> FALSE, fieldRefSet |-> FALSE]
    /\ logRoot = <<>>
    /\ status = "none"
    /\ lastCall = "none"
    /\ preDoc = DocEmpty
    /\ matchedIn = ""
    /\ execIn = [noOp |-> FALSE, inPlace |-> FALSE, fieldRefSet |-> FALSE]
    /\ prepStatus = "none"
    /\ prevBound = ""
    /\ prevCaptured = FALSE
    /\ applyRuns = 0
    /\ modIn = NoModExpr
    /\ logFail = "none"

\* A value analysis that lets every type of argument through.
isAnyArgument(modExpr) == TRUE

\* modExpr.type() == Array
isArrayArgument(modExpr) == modExpr.type = "Array"

\* ModifierPullAll::init(modExpr)
init(modExpr) ==
    /\ lastCall = "none"
    /\ lastCall' = "init"
    /\ modIn' = modExpr
    /\ _fieldRef' = modExpr.fieldName
    /\ IF isUpdatable(modExpr.fieldName) # "OK"
       THEN /\ status' = isUpdatable(modExpr.fieldName)
            /\ UNCHANGED << _positionalPathIndex, _elementsToFind >>
       ELSE /\ _positionalPathIndex' =
                  IF isPositional(modExpr.fieldName)
                  THEN firstPositional(modExpr.fieldName)
                  ELSE _positionalPathIndex
            /\ IF ~isArrayArgument(modExpr)
               THEN /\ status' = "BadValue"
                    /\ UNCHANGED _elementsToFind
               ELSE /\ _elementsToFind' = modExpr.arr
                    /\ status' = "OK"
    /\ UNCHANGED << _preparedState, doc, execInfo, logRoot, preDoc, matchedIn,
                    execIn, prepStatus, prevBound, prevCaptured, applyRuns, logFail >>

RECURSIVE scanFirstMatch(_, _, _)
\* A scan that stops at the first child equal to a value to pull.
scanFirstMatch(d, elem, find) ==
    IF ~ok(elem) THEN <<>>
    ELSE IF \E i \in 1..Len(find) : compareEqual(d, elem, find[i])
         THEN <<elem>>
         ELSE scanFirstMatch(d, rightSibling(d, elem), find)

RECURSIVE scanWithFieldNames(_, _, _)
\* A scan whose comparison considers the field names too: a member of the
\* argument array is named by its position in it.
scanWithFieldNames(d, elem, find) ==
    IF ~ok(elem) THEN <<>>
    ELSE (IF \E i \in 1..Len(find) :
                compareEqual(d, elem, find[i]) /\ d[elem].name = NumStr[i]
          THEN <<elem>> ELSE <<>>)
         \o scanWithFieldNames(d, rightSibling(d, elem), find)

RECURSIVE scanChildren(_, _, _)
\* The scan of prepare(): from elem rightwards, the children equal to a value to pull.
scanChildren(d, elem, find) ==
    IF ~ok(elem) THEN <<>>
    ELSE (IF \E i \in 1..Len(find) : compareEqual(d, elem, find[i])
          THEN <<elem>> ELSE <<>>)
         \o scanChildren(d, rightSibling(d, elem), find)

\* A prepare() that goes on with the PreparedState of the call before it.
keepPreparedState(old) == IF old.exists THEN old ELSE PreparedState

\* _preparedState.reset(new PreparedState(...)): the state prepare() starts from.
resetPreparedState(old) == PreparedState

\* FieldRef::setPart(i, part)
setPart(parts, i, part) == [parts EXCEPT ![i + 1] = part]

\* A binding made only while the part is still the "$" of the field name.
bindPositionalOnce(parts, i, matchedField) ==
    IF parts[i + 1] = "$" THEN setPart(parts, i, matchedField) ELSE parts

\* _fieldRef.setPart(_positionalPathIndex, pathPositionalPart) of prepare()
bindPositional(parts, i, matchedField) == setPart(parts, i, matchedField)

\* A write that raises noOp and forgets inPlace.
raiseNoOpOnly(ei) == [ei EXCEPT !.noOp = TRUE]

\* Flags left as the caller handed them in.
leaveFlags(ei) == ei

\* execInfo->inPlace = execInfo->noOp = true
raiseNoOp(ei) == [ei EXCEPT !.noOp = TRUE, !.inPlace = TRUE]

\* A fold that turns every failure of the resolver into OK.
foldEveryStatus(code) == "OK"

\* The status prepare() returns when findLongestPrefix did not return OK.
foldStatus(code) == IF code = "NonExistentPath" THEN "OK" ELSE code

\* A type check that lets every type through.
isAnyType(d, e) == TRUE

\* pathFoundElement.getType() == Array
isArray(d, e) == getType(d, e) = "Array"

\* A prepare() that leaves ExecInfo.fieldRef as the caller handed it in.
skipFieldRef(ei) == ei

\* execInfo->fieldRef[0] = &_fieldRef
recordFieldRef(ei) == [ei EXCEPT !.fieldRefSet = TRUE]

\* prepare() after the positional binding: resolution, type check and scan.
prepareResolved(d, fr, ps, ei) ==
    LET r   == findLongestPrefix(fr, d)
        ps2 == IF r.written
               THEN [ps EXCEPT !.pathFoundIndex = r.idx, !.pathFoundElement = r.elem]
               ELSE ps
        set == recordFieldRef(ei)
    IN IF r.code = "OK"
       THEN IF ~isArray(d, ps2.pathFoundElement)
            THEN [status |-> "BadValue", ps |-> ps2, fieldRef |-> fr, execInfo |-> ei]
            ELSE IF ~hasChildren(d, ps2.pathFoundElement)
            THEN [status |-> "OK", ps |-> ps2, fieldRef |-> fr,
                  execInfo |-> raiseNoOp(set)]
            ELSE LET rem == scanChildren(d, leftChild(d, ps2.pathFoundElement),
                                         _elementsToFind)
                 IN [status |-> "OK",
                     ps |-> [ps2 EXCEPT !.elementsToRemove = @ \o rem],
                     fieldRef |-> fr,
                     execInfo |-> IF rem = <<>> THEN raiseNoOp(set) ELSE set]
       ELSE [status |-> foldStatus(r.code), ps |-> ps2, fieldRef |-> fr,
             execInfo |-> raiseNoOp(set)]

\* A test that takes every matched field for a given one.
neverEmpty(matchedField) == FALSE

\* matchedField.empty()
empty(matchedField) == matchedField = ""

\* What prepare(root of d, matchedField, ei) returns and leaves behind.
prepareResult(d, matchedField, ei) ==
    LET ps == resetPreparedState(_preparedState)
    IN IF _positionalPathIndex # 0
       THEN IF empty(matchedField)
            THEN [status |-> "BadValue", ps |-> ps, fieldRef |-> _fieldRef, execInfo |-> ei]
            ELSE prepareResolved(d,
                                 bindPositional(_fieldRef, _positionalPathIndex, matchedField),
                                 [ps EXCEPT !.pathPositionalPart = matchedField],
                                 ei)
       ELSE prepareResolved(d, _fieldRef, ps, ei)

\* The positional part as an earlier prepare() bound it ("" when none did).
boundPart ==
    IF _positionalPathIndex # 0 /\ _fieldRef[_positionalPathIndex + 1] # "$"
    THEN _fieldRef[_positionalPathIndex + 1] ELSE ""

\* A loop that ends after its first remove().
removeFirst(d, elems) == IF elems = <<>> THEN d ELSE remove(d, Head(elems))

RECURSIVE removeAll(_, _)
\* The loop of apply(): remove() on each captured element, first to last.
removeAll(d, elems) ==
    IF elems = <<>> THEN d ELSE removeAll(remove(d, Head(elems)), Tail(elems))

\* A prepare() that removes each element as soon as it has captured it.
prepareEager(d, matchedField, ei) ==
    /\ lastCall # "none"
    /\ lastCall = "init" => status = "OK"
    /\ LET r == prepareResult(d, matchedField, ei)
       IN /\ _preparedState' = r.ps
          /\ _fieldRef' = r.fieldRef
          /\ execInfo' = r.execInfo
          /\ status' = r.status
          /\ prepStatus' = r.status
          /\ doc' = removeAll(d, r.ps.elementsToRemove)
    /\ preDoc' = d
    /\ matchedIn' = matchedField
    /\ execIn' = ei
    /\ prevBound' = boundPart
    /\ prevCaptured' = (_preparedState.elementsToRemove # <<>>)
    /\ applyRuns' = 0
    /\ logRoot' = <<>>
    /\ logFail' = "none"
    /\ lastCall' = "prepare"
    /\ UNCHANGED << _positionalPathIndex, _elementsToFind, modIn >>

\* ModifierPullAll::prepare(root, matchedField, execInfo), on a new target document
\* (for which the caller starts a new log document).
prepare(d, matchedField, ei) ==
    /\ lastCall # "none"
    /\ lastCall = "init" => status = "OK"
    /\ LET r == prepareResult(d, matchedField, ei)
       IN /\ _preparedState' = r.ps
          /\ _fieldRef' = r.fieldRef
          /\ execInfo' = r.execInfo
          /\ status' = r.status
          /\ prepStatus' = r.status
    /\ doc' = d
    /\ preDoc' = d
    /\ matchedIn' = matchedField
    /\ execIn' = ei
    /\ prevBound' = boundPart
    /\ prevCaptured' = (_preparedState.elementsToRemove # <<>>)
    /\ applyRuns' = 0
    /\ logRoot' = <<>>
    /\ logFail' = "none"
    /\ lastCall' = "prepare"
    /\ UNCHANGED << _positionalPathIndex, _elementsToFind, modIn >>

\* ModifierPullAll::apply()
apply ==
    /\ _preparedState.exists
    /\ applyRuns < MaxApplyRuns
    /\ _preparedState' = [_preparedState EXCEPT !.applyCalled = TRUE]
    /\ doc' = removeAll(doc, _preparedState.elementsToRemove)
    /\ status' = "OK"
    /\ lastCall' = "apply"
    /\ applyRuns' = applyRuns + 1
    /\ UNCHANGED << _fieldRef, _positionalPathIndex, _elementsToFind, execInfo, logRoot,
                    preDoc, matchedIn, execIn, prepStatus, prevBound, prevCaptured, modIn,
                    logFail >>

RECURSIVE Content(_, _)
\* The value of element e as it is serialized: type and value, the members of an
\* array by position, the fields of an object by name.
Content(d, e) ==
    IF d[e].type = "Object"
    THEN [t |-> "Object",
          v |-> [i \in 1..Len(d[e].kids) |->
                    [n |-> d[d[e].kids[i]].name, c |-> Content(d, d[e].kids[i])]]]
    ELSE IF d[e].type = "Array"
    THEN [t |-> "Array", v |-> [i \in 1..Len(d[e].kids) |-> Content(d, d[e].kids[i])]]
    ELSE [t |-> d[e].type, v |-> d[e].val]

\* The boolean true of an $unset entry.
TrueValue == [t |-> "Bool", v |-> 1]

\* An entry another modifier left under the log root: {$set: {z: 1}}.
OtherEntry == [op |-> "$set", path |-> <<"z">>, value |-> [t |-> "NumberInt", v |-> 1]]

\* Log roots handed to log(): empty, or holding another modifier's entry.
LogRoots == {<<>>, <<OtherEntry>>}

\* Where building the entry can fail inside log().
LogFailures == {"none", "opElement", "logElement", "pushBackLogElement", "pushBackOpElement"}

\* What a pushBack() that fails may return: log() hands it on whatever it is.
PushBackStatuses == {"InternalError", "BadValue", "IllegalOperation"}

\* Calls of log(): one that goes through under each log root, and under the log
\* root that holds an entry one failing at each step, a failing pushBack()
\* returning each of its statuses.
LogCalls ==
    {[root |-> r, fail |-> "none", pushBack |-> "OK"] : r \in LogRoots}
    \cup {[root |-> <<OtherEntry>>, fail |-> f, pushBack |-> "OK"] :
             f \in {"opElement", "logElement"}}
    \cup {[root |-> <<OtherEntry>>, fail |-> f, pushBack |-> st] :
             f \in {"pushBackLogElement", "pushBackOpElement"}, st \in PushBackStatuses}

\* A pathExists that takes any found prefix for the full path.
prefixExists == ok(_preparedState.pathFoundElement)

\* pathExists of log()
pathExists ==
    /\ ok(_preparedState.pathFoundElement)
    /\ _preparedState.pathFoundIndex = Len(_fieldRef) - 1

\* The {$op: {<dotted field>: <value>}} element log() builds.
logEntry ==
    IF pathExists
    THEN [op |-> "$set", path |-> _fieldRef,
          value |-> Content(doc, _preparedState.pathFoundElement)]
    ELSE [op |-> "$unset", path |-> _fieldRef, value |-> TrueValue]

\* The status log() returns when step `fail` of building the entry fails, a
\* failing pushBack() returning pushBackStatus.
logStatus(fail, pushBackStatus) ==
    IF fail = "none" THEN "OK"
    ELSE IF fail \in {"opElement", "logElement"} THEN "InternalError"
    ELSE pushBackStatus

\* A log() that moves the element found into the log document instead of
\* copying it under the new field name.
logMovingElement(root, fail, pushBackStatus) ==
    /\ _preparedState.exists
    /\ status' = logStatus(fail, pushBackStatus)
    /\ logRoot' = IF fail = "none" THEN Append(root, logEntry) ELSE root
    /\ doc' = IF pathExists /\ fail \notin {"opElement", "logElement"}
              THEN remove(doc, _preparedState.pathFoundElement)
              ELSE doc
    /\ lastCall' = "log"
    /\ logFail' = fail
    /\ UNCHANGED << _fieldRef, _positionalPathIndex, _elementsToFind, _preparedState,
                    execInfo, preDoc, matchedIn, execIn, prepStatus, prevBound,
                    prevCaptured, applyRuns, modIn >>

\* ModifierPullAll::log(logRoot)
log(root, fail, pushBackStatus) ==
    /\ _preparedState.exists
    /\ status' = logStatus(fail, pushBackStatus)
    /\ logRoot' = IF fail = "none" THEN Append(root, logEntry) ELSE root
    /\ lastCall' = "log"
    /\ logFail' = fail
    /\ UNCHANGED << _fieldRef, _positionalPathIndex, _elementsToFind, _preparedState, doc,
                    execInfo, preDoc, matchedIn, execIn, prepStatus, prevBound,
                    prevCaptured, applyRuns, modIn >>

\* One modifier and one target document: init, prepare, apply calls, and log
\* after the first apply.
Next ==
    \/ \E m \in ModExprs : init(m)
    \/ \E d \in Docs, mf \in MatchedFields, ei \in ExecInfos :
          lastCall = "init" /\ prepare(d, mf, ei)
    \/ lastCall # "log" /\ apply
    \/ \E c \in LogCalls : lastCall = "apply" /\ applyRuns = 1 /\ log(c.root, c.fail, c.pushBack)

Spec == Init /\ [][Next]_vars

\* Documents of a batch.
BatchDocs ==
    {DocScalar, DocArray(<<I1>>), DocArray(<<I2, I1, D1>>),
     DocNested(<<I1, I2>>), DocArrArr(<<I1, I2>>)}

\* One modifier used on the documents of a batch, one after the other.
NextBatch ==
    \/ \E m \in ModExprs : init(m)
    \/ \E d \in BatchDocs, mf \in MatchedFields, ei \in ExecInfos : prepare(d, mf, ei)
    \/ lastCall # "log" /\ apply
    \/ \E c \in LogCalls : lastCall = "apply" /\ applyRuns = 1 /\ log(c.root, c.fail, c.pushBack)

SpecBatch == Init /\ [][NextBatch]_vars

\* One modifier and one target document, with the flags of the ExecInfo handed
\* to prepare() in every combination.
NextFlags ==
    \/ \E m \in ModExprs : init(m)
    \/ \E d \in Docs, mf \in MatchedFields, ei \in AllExecInfos :
          lastCall = "init" /\ prepare(d, mf, ei)
    \/ apply

SpecFlags == Init /\ [][NextFlags]_vars

---------------------------------------------------------------------------
\* Standard $set / $unset of the host, on serialized values, for replaying a
\* log entry on a pre-image.

EmptyObject == [t |-> "Object", v |-> <<>>]

NullValue == [t |-> "jstNULL", v |-> 0]

\* A $set the replay does not cover (padding an array, descending into a scalar).
Unsupported == [t |-> "Unsupported", v |-> 0]

fieldPos(c, name) ==
    IF \E k \in 1..Len(c.v) : c.v[k].n = name
    THEN CHOOSE k \in 1..Len(c.v) :
            c.v[k].n = name /\ \A j \in 1..(k - 1) : c.v[j].n # name
    ELSE 0

RECURSIVE replaySet(_, _, _, _)
replaySet(c, parts, i, value) ==
    IF i > Len(parts) THEN value
    ELSE IF c.t = "Object"
    THEN IF fieldPos(c, parts[i]) # 0
         THEN [c EXCEPT !.v[fieldPos(c, parts[i])].c = replaySet(@, parts, i + 1, value)]
         ELSE [c EXCEPT !.v = Append(@, [n |-> parts[i],
                                          c |-> replaySet(EmptyObject, parts, i + 1, value)])]
    ELSE IF c.t = "Array" /\ isNumeric(parts[i]) /\ numericIndex(parts[i]) < Len(c.v)
    THEN [c EXCEPT !.v[numericIndex(parts[i]) + 1] = replaySet(@, parts, i + 1, value)]
    ELSE Unsupported

RECURSIVE replayUnset(_, _, _)
replayUnset(c, parts, i) ==
    IF c.t = "Object"
    THEN IF fieldPos(c, parts[i]) = 0 THEN c
         ELSE IF i = Len(parts)
         THEN [c EXCEPT !.v = SubSeq(@, 1, fieldPos(c, parts[i]) - 1)
                              \o SubSeq(@, fieldPos(c, parts[i]) + 1, Len(@))]
         ELSE [c EXCEPT !.v[fieldPos(c, parts[i])].c = replayUnset(@, parts, i + 1)]
    ELSE IF c.t = "Array" /\ isNumeric(parts[i]) /\ numericIndex(parts[i]) < Len(c.v)
    THEN IF i = Len(parts)
         THEN [c EXCEPT !.v[numericIndex(parts[i]) + 1] = NullValue]
         ELSE [c EXCEPT !.v[numericIndex(parts[i]) + 1] = replayUnset(@, parts, i + 1)]
    ELSE c

\* The document a log entry makes of the document serialized as c.
replay(c, entry) ==
    IF entry.op = "$set" THEN replaySet(c, entry.path, 1, entry.value)
    ELSE replayUnset(c, entry.path, 1)

---------------------------------------------------------------------------
\* Vocabulary of the properties.

RECURSIVE lookupFrom(_, _, _, _)
lookupFrom(d, parts, i, e) ==
    IF i > Len(parts) THEN e
    ELSE LET next == IF d[e].type = "Object" THEN childByName(d, e, parts[i])
                     ELSE IF d[e].type = "Array" /\ isNumeric(parts[i])
                          THEN childByIndex(d, e, numericIndex(parts[i]))
                          ELSE END
         IN IF next = END THEN END ELSE lookupFrom(d, parts, i + 1, next)

\* The element the dotted path names in document d; END when d has none.
elementAt(d, parts) == lookupFrom(d, parts, 1, ROOT)

\* The last prepare() had a path to resolve (no "$" was left unbound).
pathBound == ~(_positionalPathIndex # 0 /\ matchedIn = "")

\* The element the path of the last prepare() names in the document it was given.
target == elementAt(preDoc, _fieldRef)

\* Child k of d equals a value to pull.
equalsSomeValue(d, k) == \E i \in 1..Len(_elementsToFind) : compareEqual(d, k, _elementsToFind[i])

\* The children of e in d that equal no value to pull / some value to pull.
keptOf(d, e) == SelectSeq(d[e].kids, LAMBDA k : ~equalsSomeValue(d, k))

pulledOf(d, e) == SelectSeq(d[e].kids, LAMBDA k : equalsSomeValue(d, k))

\* Element e of d is an array.
holdsArray(d, e) == d[e].type = "Array"

\* The entry the last log() appended.
lastEntry == logRoot[Len(logRoot)]

---------------------------------------------------------------------------
\* Properties.

\* C1: when the full path names an array and prepare() returned OK, after apply()
\* the array holds exactly its original children that equal no value to pull, in
\* their original order and unchanged; every child equal to a value to pull is
\* gone, duplicates included.
C1_ExactlyTheMatchesRemoved ==
    (lastCall = "apply" /\ prepStatus = "OK" /\ ok(target) /\ holdsArray(preDoc, target))
    => /\ doc[target].kids = keptOf(preDoc, target)
       /\ \A k \in 1..Len(doc[target].kids) :
             /\ doc[doc[target].kids[k]].parent = target
             /\ Content(doc, doc[target].kids[k]) = Content(preDoc, doc[target].kids[k])
       /\ \A k \in 1..Len(preDoc[target].kids) :
             equalsSomeValue(preDoc, preDoc[target].kids[k])
             => doc[preDoc[target].kids[k]].parent = END

\* C1 happens: of three children the first and the last are pulled, the middle stays.
C1_Witness ==
    /\ lastCall = "apply" /\ prepStatus = "OK" /\ ok(target) /\ holdsArray(preDoc, target)
    /\ Len(preDoc[target].kids) = 3
    /\ doc[target].kids = << preDoc[target].kids[2] >>

\* C2 (as stated, for the paths the resolver can follow): when the full path names
\* no element of the document, prepare() returns OK with noOp = inPlace = true and
\* captures nothing, and apply() leaves the document as it was.
C2_AbsentPathIsNoOp ==
    (/\ lastCall \in {"prepare", "apply"}
     /\ pathBound
     /\ ~ok(target)
     /\ findLongestPrefix(_fieldRef, preDoc).code # "PathNotViable")
    => /\ prepStatus = "OK"
       /\ execInfo.noOp /\ execInfo.inPlace
       /\ _preparedState.elementsToRemove = <<>>
       /\ doc = preDoc

\* C3: a log() that returns OK appends one entry for the dotted path: $set with the
\* value now at the path when the full path named an element of the document,
\* and $unset with true when it named none.
C3_SetIffPathExisted ==
    (lastCall = "log" /\ status = "OK")
    => /\ Len(logRoot) >= 1
       /\ SubSeq(logRoot, 1, Len(logRoot) - 1) \in LogRoots
       /\ lastEntry.path = _fieldRef
       /\ IF pathBound /\ ok(target)
          THEN /\ lastEntry.op = "$set"
               /\ lastEntry.value = Content(doc, elementAt(doc, _fieldRef))
          ELSE /\ lastEntry.op = "$unset"
               /\ lastEntry.value = TrueValue

\* C3 happens: every child of the array was pulled and $set logs the empty array.
C3_Witness ==
    /\ lastCall = "log" /\ status = "OK" /\ prepStatus = "OK"
    /\ ok(target) /\ preDoc[target].kids # <<>>
    /\ lastEntry.op = "$set"
    /\ lastEntry.value = [t |-> "Array", v |-> <<>>]

\* C4 (as stated): after an OK prepare() and apply(), the entry log() appended,
\* replayed on the document as it was handed to prepare(), gives the document as
\* it is now.
C4_ReplayEquivalence ==
    (lastCall = "log" /\ status = "OK" /\ prepStatus = "OK")
    => replay(Content(preDoc, ROOT), lastEntry) = Content(doc, ROOT)

\* C5: with noOp handed in false and prepare() returning OK, noOp is true exactly
\* when apply() leaves the document unchanged, exactly when nothing is captured;
\* it is raised together with inPlace, and it is raised for an array with no
\* child equal to a value to pull.
C5_NoOpIffNothingChanges ==
    (lastCall = "apply" /\ prepStatus = "OK" /\ ~execIn.noOp)
    => /\ execInfo.noOp <=> (doc = preDoc)
       /\ execInfo.noOp <=> (_preparedState.elementsToRemove = <<>>)
       /\ execInfo.noOp => execInfo.inPlace
       /\ (ok(target) /\ pulledOf(preDoc, target) = <<>>)
          => (execInfo.noOp /\ execInfo.inPlace)
       /\ (ok(target) /\ pulledOf(preDoc, target) # <<>>) => ~execInfo.noOp

\* C5 happens: a child is captured, noOp stays false and apply() changes the document.
C5_Witness ==
    /\ lastCall = "apply" /\ prepStatus = "OK" /\ ~execIn.noOp
    /\ ok(target) /\ pulledOf(preDoc, target) # <<>>
    /\ ~execInfo.noOp /\ doc # preDoc

\* C6: when the full path names an element that is no array, prepare() returns
\* BadValue and captures nothing.
C6_NonArrayIsBadValue ==
    (lastCall = "prepare" /\ pathBound /\ ok(target) /\ ~holdsArray(preDoc, target))
    => /\ status = "BadValue"
       /\ _preparedState.elementsToRemove = <<>>

\* C6 happens: a.b names a number inside the object a.
C6_Witness ==
    /\ lastCall = "prepare" /\ pathBound /\ Len(_fieldRef) = 2
    /\ ok(target) /\ ~holdsArray(preDoc, target)
    /\ status = "BadValue"

\* C7: in a batch, when the field name given to init() holds a "$" part and
\* matchedField is empty, prepare() returns BadValue and resolves nothing: no
\* element found, nothing captured, the path left as it was, ExecInfo untouched.
C7_UnboundPositionalIsBadValue ==
    (lastCall = "prepare" /\ isPositional(modIn.fieldName) /\ matchedIn = "")
    => /\ status = "BadValue"
       /\ ~execInfo.fieldRefSet
       /\ execInfo = execIn
       /\ _preparedState.pathFoundElement = END
       /\ _preparedState.elementsToRemove = <<>>
       /\ _fieldRef[_positionalPathIndex + 1] = (IF prevBound = "" THEN "$" ELSE prevBound)

\* C7 happens: the field name a.$ was never bound, and prepare() without a
\* matched field on a document whose a is an array returned BadValue.
C7_Witness ==
    /\ lastCall = "prepare" /\ matchedIn = ""
    /\ _fieldRef = <<"a", "$">>
    /\ holdsArray(doc, 2)
    /\ status = "BadValue"

\* C8: in a batch, after every prepare() for a positional field name, the "$"
\* part of the path is the matched field given to this prepare(): in _fieldRef
\* (which ExecInfo.fieldRef points to), in the part kept by the PreparedState, in
\* the element resolved and in the path log() writes; it is not the part bound
\* for the document before, unless the two are the same.  A prepare() given no
\* matched field fails with nothing resolved and nothing exposed.
C8_BindingIsPerDocument ==
    (lastCall \in {"prepare", "apply", "log"} /\ _positionalPathIndex # 0)
    => IF matchedIn # ""
       THEN /\ _fieldRef[_positionalPathIndex + 1] = matchedIn
            /\ _preparedState.pathPositionalPart = matchedIn
            /\ prevBound # matchedIn => _fieldRef[_positionalPathIndex + 1] # prevBound
            /\ prepStatus = "OK" => execInfo.fieldRefSet
            /\ ok(target) => _preparedState.pathFoundElement = target
            /\ (lastCall = "log" /\ status = "OK")
               => lastEntry.path[_positionalPathIndex + 1] = matchedIn
       ELSE /\ prepStatus = "BadValue"
            /\ ~execInfo.fieldRefSet
            /\ _preparedState.pathFoundElement = END
            /\ _preparedState.elementsToRemove = <<>>

\* C8 happens: the document before was bound to "0", this one is bound to "1" and
\* log() has written its entry.
C8_Witness ==
    /\ lastCall = "log" /\ status = "OK" /\ _positionalPathIndex # 0
    /\ prevBound = "0" /\ matchedIn = "1"
    /\ lastEntry.path = <<"a", "1">>

\* What prepare() captures in document d for the path of _fieldRef, from d alone.
capturedFor(d) ==
    LET r == findLongestPrefix(_fieldRef, d)
    IN IF pathBound /\ r.code = "OK" /\ holdsArray(d, r.elem) THEN pulledOf(d, r.elem) ELSE <<>>

\* C9: after every prepare() of a batch, OK or not, the PreparedState holds only
\* what this call found in its own document: applied flag down, the element and
\* depth this document resolves to (or none), and as captured elements the
\* children of that element that equal a value to pull; apply() then detaches
\* those elements and no other.
C9_PreparedStateReplaced ==
    /\ lastCall = "prepare"
       => /\ ~_preparedState.applyCalled
          /\ _preparedState.pathPositionalPart =
                (IF _positionalPathIndex # 0 THEN matchedIn ELSE "")
          /\ LET r == findLongestPrefix(_fieldRef, doc)
             IN IF pathBound /\ r.written
                THEN /\ _preparedState.pathFoundElement = r.elem
                     /\ _preparedState.pathFoundIndex = r.idx
                ELSE /\ _preparedState.pathFoundElement = END
                     /\ _preparedState.pathFoundIndex = 0
          /\ _preparedState.elementsToRemove = capturedFor(doc)
          /\ status # "OK" => _preparedState.elementsToRemove = <<>>
    /\ lastCall = "apply"
       => \A e \in DOMAIN doc :
             doc[e] # preDoc[e]
             => \/ \E k \in 1..Len(capturedFor(preDoc)) : capturedFor(preDoc)[k] = e
                \/ /\ e = findLongestPrefix(_fieldRef, preDoc).elem
                   /\ doc[e].kids = keptOf(preDoc, e)

\* C9 happens: the PreparedState replaced held captured elements, and the
\* prepare() that replaced it failed and holds none.
C9_Witness ==
    /\ lastCall = "prepare" /\ prevCaptured
    /\ status = "BadValue"
    /\ _preparedState.elementsToRemove = <<>>

\* C10 (as stated): apply() runs at most once on one PreparedState.
C10_ApplyAtMostOnce == applyRuns <= 1

\* C11: in a batch, after every prepare() that does not return OK (no matched
\* field for the "$", a target that is no array, a resolution failure handed on)
\* nothing is captured, also when the document before had captured elements, and
\* the apply() calls that follow leave the document as it was handed to prepare().
C11_FailedPrepareLeavesDocument ==
    (lastCall \in {"prepare", "apply"} /\ prepStatus # "OK")
    => /\ _preparedState.elementsToRemove = <<>>
       /\ doc = preDoc

\* C11 happens: the document before had captured elements, this prepare() handed
\* on the resolver's failure and apply() has run.
C11_Witness ==
    /\ lastCall = "apply" /\ prevCaptured
    /\ prepStatus = "PathNotViable"
    /\ doc = preDoc

\* C12: for a field name isUpdatable() accepts, init() returns OK exactly when the
\* argument is an array; for another type it returns BadValue and _elementsToFind
\* stays empty; for an array _elementsToFind holds the members of the argument in
\* their order, and keeps holding them through the calls that follow.
C12_InitRequiresArray ==
    (lastCall # "none" /\ isUpdatable(modIn.fieldName) = "OK")
    => /\ lastCall = "init"
          => /\ status = "OK" <=> modIn.type = "Array"
             /\ modIn.type # "Array" => status = "BadValue"
       /\ modIn.type # "Array" => _elementsToFind = <<>>
       /\ modIn.type = "Array"
          => /\ Len(_elementsToFind) = Len(modIn.arr)
             /\ \A i \in 1..Len(modIn.arr) : _elementsToFind[i] = modIn.arr[i]

\* C12 happens: init() refused a number given for the field name a.b.
C12_Witness ==
    /\ lastCall = "init" /\ status = "BadValue"
    /\ modIn.fieldName = <<"a", "b">> /\ modIn.type = "NumberInt"
    /\ _elementsToFind = <<>>

\* C13 (as stated): every prepare() records _fieldRef in ExecInfo.fieldRef,
\* whatever it returns.
C13_FieldRefAlwaysRecorded ==
    lastCall = "prepare" => execInfo.fieldRefSet

\* C13 (amended): a prepare() records _fieldRef in ExecInfo.fieldRef exactly when
\* it does not return BadValue: no-op or not, full path found or absent, and also
\* when it hands on a failure of the resolver; the path recorded has the "$" part
\* bound when the field name has one.
C13_FieldRefRecordedUnlessBadValue ==
    lastCall = "prepare"
    => /\ execInfo.fieldRefSet <=> status # "BadValue"
       /\ (execInfo.fieldRefSet /\ _positionalPathIndex # 0)
          => _fieldRef[_positionalPathIndex + 1] = matchedIn

\* C13 happens: elements are captured (no no-op) and the bound path is recorded.
C13_Witness ==
    /\ lastCall = "prepare" /\ status = "OK"
    /\ _preparedState.elementsToRemove # <<>> /\ ~execInfo.noOp
    /\ _positionalPathIndex # 0 /\ _fieldRef[_positionalPathIndex + 1] = matchedIn
    /\ execInfo.fieldRefSet

\* Element e is among the captured elements.
scheduled(e) ==
    \E k \in 1..Len(_preparedState.elementsToRemove) : _preparedState.elementsToRemove[k] = e

\* The children of the element prepare() resolved.
scanned == doc[_preparedState.pathFoundElement].kids

\* C14: of the children prepare() scanned, two of the same type and value are
\* both captured or both kept, whatever their field names; a child whose type
\* differs from the type of every value to pull is never captured.
C14_TypeAndValueOnly ==
    (lastCall = "prepare" /\ status = "OK" /\ ok(_preparedState.pathFoundElement))
    => /\ \A i, j \in 1..Len(scanned) :
             (/\ doc[scanned[i]].type = doc[scanned[j]].type
              /\ doc[scanned[i]].val = doc[scanned[j]].val)
             => (scheduled(scanned[i]) <=> scheduled(scanned[j]))
       /\ \A i \in 1..Len(scanned) :
             (\A k \in 1..Len(_elementsToFind) :
                 doc[scanned[i]].type # _elementsToFind[k].type)
             => ~scheduled(scanned[i])

\* C14 happens: of [1, "1", 1] with the number 1 to pull, the children named 0
\* and 2 are both captured and the string is kept.
C14_Witness ==
    /\ lastCall = "prepare" /\ status = "OK" /\ ok(_preparedState.pathFoundElement)
    /\ _elementsToFind = <<I1>>
    /\ Len(scanned) = 3
    /\ doc[scanned[2]].type = "String"
    /\ _preparedState.elementsToRemove = << scanned[1], scanned[3] >>

\* Position of element e among the children of p in d (0 when it is none of them).
childPos(d, p, e) ==
    IF \E i \in 1..Len(d[p].kids) : d[p].kids[i] = e
    THEN CHOOSE i \in 1..Len(d[p].kids) : d[p].kids[i] = e
    ELSE 0

\* Element e hangs nowhere in d.
detached(d, e) ==
    /\ d[e].parent = END
    /\ \A p \in DOMAIN d : childPos(d, p, e) = 0

\* C15: after an OK prepare() the captured elements are children of the element
\* resolved, listed left to right (so none twice), with the document still whole;
\* in the apply() that follows, each of them is still a child of that element when
\* its turn comes, the ones listed before it being removed; apply() leaves the
\* list as prepare() made it, and after it no listed element hangs in the document.
C15_CapturedBeforeRemoval ==
    LET elems == _preparedState.elementsToRemove
        arr   == _preparedState.pathFoundElement
    IN /\ (lastCall = "prepare" /\ status = "OK" /\ elems # <<>>)
          => /\ doc = preDoc
             /\ holdsArray(doc, arr)
             /\ \A i \in 1..Len(elems) : childPos(doc, arr, elems[i]) # 0
             /\ \A i, j \in 1..Len(elems) :
                   i < j => childPos(doc, arr, elems[i]) < childPos(doc, arr, elems[j])
             /\ \A i \in 1..Len(elems) :
                   LET d == removeAll(doc, SubSeq(elems, 1, i - 1))
                   IN /\ childPos(d, arr, elems[i]) # 0
                      /\ d[elems[i]].parent = arr
                      /\ Content(d, elems[i]) = Content(preDoc, elems[i])
       /\ (lastCall = "apply" /\ prepStatus = "OK")
          => /\ elems = capturedFor(preDoc)
             /\ \A i \in 1..Len(elems) : detached(doc, elems[i])

\* C15 happens: two neighbours were captured and apply() has removed both.
C15_Witness ==
    /\ lastCall = "apply" /\ prepStatus = "OK" /\ applyRuns = 1
    /\ Len(_preparedState.elementsToRemove) = 2
    /\ childPos(preDoc, _preparedState.pathFoundElement, _preparedState.elementsToRemove[2])
       = childPos(preDoc, _preparedState.pathFoundElement, _preparedState.elementsToRemove[1]) + 1
    /\ detached(doc, _preparedState.elementsToRemove[2])

\* C16: prepare() leaves the document as it was handed in, node for node, whatever
\* the document, the matched field and the status returned, and also when it
\* has captured elements; a document that differs from the one handed in has been
\* through apply().
C16_PrepareIsDryRun ==
    /\ lastCall = "prepare"
       => /\ doc = preDoc
          /\ Content(doc, ROOT) = Content(preDoc, ROOT)
          /\ \A k \in 1..Len(_preparedState.elementsToRemove) :
                doc[_preparedState.elementsToRemove[k]].parent
                = _preparedState.pathFoundElement
    /\ doc # preDoc => (applyRuns >= 1 /\ lastCall \in {"apply", "log"})

\* C16 happens: prepare() returned OK with every child of the array captured,
\* and the array still holds them.
C16_Witness ==
    /\ lastCall = "prepare" /\ status = "OK"
    /\ Len(_preparedState.elementsToRemove) = MaxArr
    /\ Len(doc[_preparedState.pathFoundElement].kids) = MaxArr

\* C17: when prepare() has run the resolver and the resolver failed with another
\* code than NonExistentPath, prepare() returns that code; when it failed with
\* NonExistentPath, prepare() returns OK; prepare() returns OK for no other
\* failure of the resolver.
C17_OnlyNonExistentPathFolded ==
    (lastCall = "prepare" /\ pathBound)
    => LET r == findLongestPrefix(_fieldRef, preDoc)
       IN /\ r.code \notin {"OK", "NonExistentPath"} => status = r.code
          /\ r.code = "NonExistentPath" => status = "OK"
          /\ status = "OK" => r.code \in {"OK", "NonExistentPath"}

\* C17 happens: the path steps into a number, the resolver fails with
\* PathNotViable and prepare() hands that on.
C17_Witness ==
    /\ lastCall = "prepare" /\ pathBound
    /\ findLongestPrefix(_fieldRef, preDoc).code = "PathNotViable"
    /\ status = "PathNotViable"

\* C18 (as stated): a log() in which a step of building or attaching the entry
\* fails returns InternalError, not OK and not BadValue.
C18_EveryFailureIsInternalError ==
    (lastCall = "log" /\ logFail # "none")
    => /\ status = "InternalError"
       /\ status \notin {"OK", "BadValue"}

\* What apply() may make of node e of the document: the element resolved loses
\* the captured ones among its children, a captured element loses its parent,
\* every other node stays as it is.
afterApply(e) ==
    IF e = _preparedState.pathFoundElement
    THEN [doc[e] EXCEPT !.kids = SelectSeq(@, LAMBDA k : ~scheduled(k))]
    ELSE IF scheduled(e) THEN [doc[e] EXCEPT !.parent = END]
    ELSE doc[e]

\* C19: a step of apply() changes the document only by taking captured children
\* out of the element prepare() resolved: that element keeps its name, type, parent
\* and its other children in their order, every other node is untouched, and of
\* the modifier only the applied flag changes.  A step of log() changes neither
\* the document nor the PreparedState nor the path; when it returns OK the log
\* root holds what it was handed in with and one $set or $unset entry after it,
\* and when it fails the log root holds what it was handed in with.
C19_FrameOfApplyAndLog ==
    [][ /\ lastCall' = "apply"
           => /\ DOMAIN doc' = DOMAIN doc
              /\ \A e \in DOMAIN doc : doc'[e] = afterApply(e)
              /\ _preparedState' = [_preparedState EXCEPT !.applyCalled = TRUE]
              /\ UNCHANGED << _fieldRef, _elementsToFind, execInfo, logRoot >>
        /\ lastCall' = "log"
           => /\ UNCHANGED << doc, _preparedState, _fieldRef, _elementsToFind, execInfo >>
              /\ IF status' = "OK"
                 THEN \E root \in LogRoots :
                         /\ Len(logRoot') = Len(root) + 1
                         /\ SubSeq(logRoot', 1, Len(root)) = root
                         /\ logRoot'[Len(logRoot')].op \in {"$set", "$unset"}
                 ELSE logRoot' \in LogRoots
      ]_vars

\* C19 happens: apply() took children out of the array, and log() then added its
\* $set entry after the entry the log root held.
C19_Witness ==
    /\ lastCall = "log" /\ status = "OK"
    /\ _preparedState.applyCalled /\ _preparedState.elementsToRemove # <<>>
    /\ doc # preDoc
    /\ doc[ROOT] = preDoc[ROOT]
    /\ Len(logRoot) = 2 /\ logRoot[1] = OtherEntry /\ logRoot[2].op = "$set"

\* C20: whatever flags the ExecInfo handed to prepare() holds, a flag that was
\* true is true after prepare(), also when elements are captured; when prepare()
\* has changed a flag, noOp and inPlace are both true; when it returns BadValue or
\* has captured elements the flags are as they were handed in, and in every other
\* case both are true.
C20_FlagsOnlyRaisedTogether ==
    lastCall \in {"prepare", "apply"}
    => /\ execIn.noOp => execInfo.noOp
       /\ execIn.inPlace => execInfo.inPlace
       /\ (execInfo.noOp # execIn.noOp \/ execInfo.inPlace # execIn.inPlace)
          => (execInfo.noOp /\ execInfo.inPlace)
       /\ IF prepStatus = "BadValue" \/ _preparedState.elementsToRemove # <<>>
          THEN execInfo.noOp = execIn.noOp /\ execInfo.inPlace = execIn.inPlace
          ELSE execInfo.noOp /\ execInfo.inPlace

\* C20 happens: noOp was handed in true without inPlace, elements are captured,
\* and noOp is still true.
C20_Witness ==
    /\ lastCall = "prepare" /\ status = "OK"
    /\ execIn.noOp /\ ~execIn.inPlace
    /\ _preparedState.elementsToRemove # <<>>
    /\ execInfo.noOp /\ ~execInfo.inPlace

====
